---- MODULE Spec2Model ----
(***************************************************************************)
(* Palette quantisation engine of dale-img-convert (src/src/img_conv.rs).  *)
(*                                                                         *)
(* The converter (DalImageConverter) is the state: the kd-tree of Lab      *)
(* points, the identifier -> RGB lookup table and the output dimensions.   *)
(* Every public operation is one action; the record `last` holds the       *)
(* arguments and the result of the call that has just returned.            *)
(*                                                                         *)
(* Numbers.  The code computes in f32; the model computes the same         *)
(* formulas in fixed point (all values fit TLC's 32-bit integers):         *)
(*   linear light           scaled by 100000  (LinScale)                   *)
(*   f(t) of the Lab formula scaled by 10000  (FScale)                     *)
(*   Lab coordinates, distances scaled by 100                              *)
(*   resampling weights      scaled by 1000   (WScale)                     *)
(*   f32 samples between the two resampling passes scaled by 64            *)
(*                                                                         *)
(* Library code.  kiddo's KdTree<f32, 3> has buckets of 32 points: a tree  *)
(* of at most 32 points is one leaf, `add` appends to it and `nearest_one` *)
(* scans it keeping the first point of least distance, starting from       *)
(* (f32::MAX, item 0).  The model covers palettes of at most MaxPalette    *)
(* (< 32) entries, so the per-axis bound dist1, which only prunes stems,   *)
(* is never evaluated by a search.  palette's Lab::delta_e is the          *)
(* Euclidean (CIE76) distance between the two Lab points.                  *)
(***************************************************************************)
EXTENDS Integers, Naturals, Sequences, FiniteSets, TLC

VARIABLES
    palette,    \* the slice passed to DalImageConverter::new (ghost)
    tree,       \* self.tree: the leaf bucket, a sequence of [point, item]
    index_map,  \* self.index_map: identifier -> RGB
    seed,       \* the RandomState of self.index_map: fixes the iteration order
                \* of the HashMap, which no operation of the converter reads
    dim,        \* self.dim: <<width, height>>
    pc,         \* "idle": no call in progress; "returned": a call has ended
    last,       \* the call that has just ended: its arguments and its result,
                \* or panic = TRUE if it failed with "Color not found"
    prev        \* the call that returned before it (history of one call)

vars == <<palette, tree, index_map, seed, dim, pc, last, prev>>

(***************************************************************************)
(* Bounds of the model.                                                    *)
(***************************************************************************)
\* longest palette passed to new
MaxPalette == 2
\* largest number of pixels of the output raster (dim.0 * dim.1)
MaxDimArea == 2
\* largest number of pixels of an input raster
MaxPixels == 2
\* largest number of pixels of an RGBA raster
MaxAlphaPixels == 2

(***************************************************************************)
(* Fixed-point scales and library constants.                               *)
(***************************************************************************)
LinScale == 100000
FScale == 10000
WScale == 1000
\* f32::MAX, the distance nearest_one starts from
F32_MAX == 2147483647
\* support of the Lanczos3 kernel
Lanczos3Support == 3

(***************************************************************************)
(* Input domains.                                                          *)
(***************************************************************************)
PaletteColors == {<<0, 0, 0>>, <<255, 255, 255>>, <<255, 0, 0>>}
PixelColors == {<<10, 10, 10>>, <<250, 5, 5>>}
QueryColors == PaletteColors \cup PixelColors \cup {<<0, 0, 1>>, <<128, 128, 128>>}

RECURSIVE SeqsUpTo(_, _)
SeqsUpTo(S, n) ==
    IF n = 0 THEN {<<>>}
    ELSE LET shorter == SeqsUpTo(S, n - 1)
         IN  shorter \cup {Append(s, x) : s \in {t \in shorter : Len(t) = n - 1}, x \in S}

Palettes == SeqsUpTo(PaletteColors, MaxPalette)
Seeds == {0, 1}

Shapes(area) == {d \in (1..area) \X (1..area) : d[1] * d[2] <= area}

Images(pixels, area) ==
    UNION {{[w |-> d[1], h |-> d[2], px |-> p] : p \in [1..(d[1] * d[2]) -> pixels]} :
           d \in Shapes(area)}

AlphaPixels == {<<10, 10, 10, 255>>, <<250, 5, 5, 254>>, <<250, 5, 5, 0>>}
TransColors == {<<1, 2, 3>>}
RgbImages == Images(PixelColors, MaxPixels)
RgbaImages == Images(AlphaPixels, MaxAlphaPixels)
\* the DynamicImage values passed to resize_and_rotate and process
DynImages == RgbImages \cup Images({<<10, 10, 10, 255>>, <<250, 5, 5, 254>>}, MaxAlphaPixels)

NoRgb == <<0, 0, 0>>
NoImg == [w |-> 0, h |-> 0, px |-> <<>>]
Dims == Shapes(MaxDimArea)

NoCall == [op |-> "none", rgb |-> NoRgb, img |-> NoImg, flag |-> FALSE,
           panic |-> FALSE, mid |-> NoImg, out_rgb |-> NoRgb, out_img |-> NoImg]

(***************************************************************************)
(* rgb_to_lab: Srgb<f32> -> linear RGB -> XYZ (D65) -> Lab.                *)
(***************************************************************************)
\* sRGB transfer function of c/255 for c = 0..255, scaled by LinScale:
\* x / 12.92 if x <= 0.04045, else ((x + 0.055) / 1.055) ^ 2.4
SrgbToLinear ==
    <<
            0,     30,     61,     91,    121,    152,    182,    212,
          243,    273,    304,    335,    368,    402,    439,    478,
          518,    561,    605,    651,    700,    750,    802,    857,
          913,    972,   1033,   1096,   1161,   1229,   1298,   1370,
         1444,   1521,   1600,   1681,   1764,   1850,   1938,   2029,
         2122,   2217,   2315,   2416,   2519,   2624,   2732,   2843,
         2956,   3071,   3190,   3310,   3434,   3560,   3689,   3820,
         3955,   4092,   4231,   4374,   4519,   4667,   4817,   4971,
         5127,   5286,   5448,   5613,   5781,   5951,   6125,   6301,
         6480,   6663,   6848,   7036,   7227,   7421,   7619,   7819,
         8022,   8228,   8438,   8650,   8866,   9084,   9306,   9531,
         9759,   9990,  10224,  10462,  10702,  10946,  11193,  11444,
        11697,  11954,  12214,  12477,  12744,  13014,  13287,  13563,
        13843,  14126,  14413,  14703,  14996,  15293,  15593,  15896,
        16203,  16513,  16827,  17144,  17465,  17789,  18116,  18447,
        18782,  19120,  19462,  19807,  20156,  20508,  20864,  21223,
        21586,  21953,  22323,  22697,  23074,  23455,  23840,  24228,
        24620,  25016,  25415,  25818,  26225,  26636,  27050,  27468,
        27889,  28315,  28744,  29177,  29614,  30054,  30499,  30947,
        31399,  31855,  32314,  32778,  33245,  33716,  34191,  34670,
        35153,  35640,  36131,  36625,  37124,  37626,  38133,  38643,
        39157,  39676,  40198,  40724,  41254,  41789,  42327,  42869,
        43415,  43966,  44520,  45079,  45641,  46208,  46778,  47353,
        47932,  48515,  49102,  49693,  50289,  50888,  51492,  52100,
        52712,  53328,  53948,  54572,  55201,  55834,  56471,  57112,
        57758,  58408,  59062,  59720,  60383,  61050,  61721,  62396,
        63076,  63760,  64448,  65141,  65837,  66539,  67244,  67954,
        68669,  69387,  70110,  70838,  71569,  72306,  73046,  73791,
        74540,  75294,  76052,  76815,  77582,  78354,  79130,  79910,
        80695,  81485,  82279,  83077,  83880,  84687,  85499,  86316,
        87137,  87962,  88792,  89627,  90466,  91310,  92158,  93011,
        93869,  94731,  95597,  96469,  97345,  98225,  99110, 100000
    >>

into_linear(c) == SrgbToLinear[c + 1]

\* linear sRGB -> XYZ, rows of the D65 matrix scaled by 10000; result scaled by 10^9
LinToX(l) == 4125 * l[1] + 3576 * l[2] + 1804 * l[3]
LinToY(l) == 2127 * l[1] + 7152 * l[2] + 722 * l[3]
LinToZ(l) == 193 * l[1] + 1192 * l[2] + 9503 * l[3]

\* largest r in lo..hi with r^3 <= t * FScale^3 / LinScale (bisection; r * r * r
\* is taken as ((r * r) \div 1000) * r to stay within 32 bits)
RECURSIVE CbrtSearch(_, _, _)
CbrtSearch(t, lo, hi) ==
    IF lo >= hi THEN lo
    ELSE LET m == (lo + hi + 1) \div 2
         IN  IF ((m * m) \div 1000) * m <= t * 10000
             THEN CbrtSearch(t, m, hi)
             ELSE CbrtSearch(t, lo, m - 1)

\* f(t) of the XYZ -> Lab formula, t scaled by LinScale, result by FScale:
\* cbrt(t) if t > (6/29)^3, else (841/108) t + 16/116
LabF(t) ==
    IF t > 885 THEN CbrtSearch(t, 0, FScale + 100)
    ELSE (7787 * t) \div 10000 + 1379

rgb_to_lab(rgba) ==
    LET l  == <<into_linear(rgba[1]), into_linear(rgba[2]), into_linear(rgba[3])>>
        fx == LabF(LinToX(l) \div 9505)
        fy == LabF(LinToY(l) \div 10000)
        fz == LabF(LinToZ(l) \div 10888)
    IN  <<(116 * fy - 16 * FScale) \div 100, 5 * (fx - fy), 2 * (fy - fz)>>

(***************************************************************************)
(* ciede2000_distance / CiedeDist: Lab::delta_e, the Euclidean distance.   *)
(***************************************************************************)
RECURSIVE SqrtSearch(_, _, _)
SqrtSearch(n, lo, hi) ==
    IF lo >= hi THEN lo
    ELSE LET m == (lo + hi + 1) \div 2
         IN  IF m * m <= n THEN SqrtSearch(n, m, hi) ELSE SqrtSearch(n, lo, m - 1)

ciede2000_distance(c1, c2) ==
    LET dl == c1[1] - c2[1]
        da == c1[2] - c2[2]
        db == c1[3] - c2[3]
    IN  SqrtSearch(dl * dl + da * da + db * db, 0, 46340)

\* variant: the signed per-axis differences of dist1 summed up in place of delta_e
dist_signed(a, b) == (a[1] - b[1]) + (a[2] - b[2]) + (a[3] - b[3])

dist(a, b) == ciede2000_distance(a, b)

dist1(a, b) == a - b

(***************************************************************************)
(* KdTree<f32, 3>: one leaf bucket.                                        *)
(***************************************************************************)
KdTree_new == <<>>

\* kd_tree.add(&point, item)
add(tr, point, item) == Append(tr, [point |-> point, item |-> item])

\* tree.nearest_one::<CiedeDist>(&query): scan of the leaf from position k on,
\* `best` is the nearest neighbour found so far; a point replaces it only when
\* it is strictly nearer
RECURSIVE nearest_one_scan(_, _, _, _)
nearest_one_scan(tr, query, k, best) ==
    IF k > Len(tr) THEN best
    ELSE LET d == dist(query, tr[k].point)
         IN  nearest_one_scan(tr, query, k + 1,
                 IF d < best.distance
                 THEN [distance |-> d, item |-> tr[k].item]
                 ELSE best)

nearest_one(tr, query) ==
    nearest_one_scan(tr, query, 1, [distance |-> F32_MAX, item |-> 0])

(***************************************************************************)
(* DalImageConverter::new                                                  *)
(***************************************************************************)
\* variant: the lookup table is keyed from 1, the tree items from 0
RECURSIVE new_loop_keys_from_one(_, _, _, _)
new_loop_keys_from_one(pal, k, kd_tree, map) ==
    IF k > Len(pal) THEN [tree |-> kd_tree, index_map |-> map]
    ELSE new_loop_keys_from_one(pal, k + 1,
             add(kd_tree, rgb_to_lab(pal[k]), k - 1),
             [j \in DOMAIN map \cup {k} |-> IF j = k THEN pal[k] ELSE map[j]])

\* variant: a colour already in the lookup table is not inserted again
RECURSIVE new_loop_dedup(_, _, _, _)
new_loop_dedup(pal, k, kd_tree, map) ==
    IF k > Len(pal) THEN [tree |-> kd_tree, index_map |-> map]
    ELSE IF \E j \in DOMAIN map : map[j] = pal[k]
         THEN new_loop_dedup(pal, k + 1, kd_tree, map)
         ELSE new_loop_dedup(pal, k + 1,
                  add(kd_tree, rgb_to_lab(pal[k]), k - 1),
                  [j \in DOMAIN map \cup {k - 1} |-> IF j = k - 1 THEN pal[k] ELSE map[j]])

\* the loop of new over palette.iter().enumerate(), entries k..Len(pal);
\* the identifier of entry k (1-based here) is i = k - 1
RECURSIVE new_loop(_, _, _, _)
new_loop(pal, k, kd_tree, map) ==
    IF k > Len(pal) THEN [tree |-> kd_tree, index_map |-> map]
    ELSE LET color == pal[k]
             i == k - 1
             lab_color == rgb_to_lab(color)
         IN  new_loop(pal, k + 1,
                 add(kd_tree, lab_color, i),
                 [j \in DOMAIN map \cup {i} |-> IF j = i THEN color ELSE map[j]])

new(pal, d) ==
    LET built == new_loop(pal, 1, KdTree_new, <<>>)
    IN  [tree |-> built.tree, index_map |-> built.index_map, dim |-> d]

(***************************************************************************)
(* DalImageConverter::get_nearest                                          *)
(***************************************************************************)
\* variant: unwrap_or(rgba) in place of expect("Color not found")
get_nearest_or_query(rgba) ==
    LET nearest == nearest_one(tree, rgb_to_lab(rgba)).item
    IN  [panic |-> FALSE,
         val |-> IF nearest \in DOMAIN index_map THEN index_map[nearest] ELSE rgba]

\* variant: index_map.values().nth(nearest) in place of index_map.get(&nearest);
\* the HashMap iterates its keys upwards under seed 0, downwards under seed 1
get_nearest_by_position(rgba) ==
    LET nearest == nearest_one(tree, rgb_to_lab(rgba)).item
        n == Cardinality(DOMAIN index_map)
        key == IF seed = 0 THEN nearest ELSE n - 1 - nearest
    IN  IF key \in DOMAIN index_map
        THEN [panic |-> FALSE, val |-> index_map[key]]
        ELSE [panic |-> TRUE, val |-> NoRgb]

\* [panic |-> TRUE] is the failure of expect("Color not found")
get_nearest(rgba) ==
    LET lab == rgb_to_lab(rgba)
        nearest == nearest_one(tree, lab).item
    IN  IF nearest \in DOMAIN index_map
        THEN [panic |-> FALSE, val |-> index_map[nearest]]
        ELSE [panic |-> TRUE, val |-> NoRgb]

(***************************************************************************)
(* Raster images: [w, h, px], px the pixels in row-major order, each a     *)
(* tuple of 3 (Rgb8) or 4 (Rgba8) channels.                                *)
(***************************************************************************)
Pixel(img, x, y) == img.px[y * img.w + x + 1]

Channels(img) == IF img.px = <<>> THEN 3 ELSE Len(img.px[1])

\* DynamicImage::rotate90: the pixel at (x, y) goes to (height - 1 - y, x)
rotate90(img) ==
    [w  |-> img.h,
     h  |-> img.w,
     px |-> [k \in 1..(img.w * img.h) |->
                LET nx == (k - 1) % img.h
                    ny == (k - 1) \div img.h
                IN  Pixel(img, ny, img.h - 1 - nx)]]

\* DynamicImage::to_rgb8: an Rgba8 pixel loses its alpha channel
to_rgb8(img) ==
    [w |-> img.w, h |-> img.h,
     px |-> [k \in 1..Len(img.px) |-> SubSeq(img.px[k], 1, 3)]]

(***************************************************************************)
(* DynamicImage::resize_exact with FilterType::Lanczos3 (imageops::resize: *)
(* a vertical pass into f32 samples, then a horizontal pass that clamps    *)
(* and rounds to u8).                                                      *)
(***************************************************************************)
\* sin(pi * t), t >= 0 scaled by WScale, result scaled by WScale
\* (Bhaskara's rational approximation on each half period)
SinPi(t) ==
    LET u == t % 1000
        p == 4 * u * (1000 - u)
        s == (4 * p) \div ((5000000 - p) \div 1000)
    IN  IF (t \div 1000) % 2 = 0 THEN s ELSE 0 - s

\* sinc(t) = sin(pi t) / (pi t), 1 at t = 0
sinc(t) ==
    LET a == IF t < 0 THEN 0 - t ELSE t
        pit == (3142 * a) \div 1000
    IN  IF pit = 0 THEN WScale ELSE (SinPi(a) * WScale) \div pit

\* lanczos3_kernel(x) = sinc(x) * sinc(x / 3) for |x| < 3, else 0
lanczos3_kernel(x) ==
    IF x < Lanczos3Support * WScale /\ x > 0 - Lanczos3Support * WScale
    THEN (sinc(x) * sinc(x \div Lanczos3Support)) \div WScale
    ELSE 0

Clamp(v, lo, hi) == IF v < lo THEN lo ELSE IF v > hi THEN hi ELSE v

\* the input samples left..right-1 that contribute to output sample `out`
\* when n input samples are resampled to m: ratio = n / m,
\* sratio = max(ratio, 1), src_support = 3 * sratio,
\* inputx = (out + 0.5) * ratio
SampleLeft(n, m, out) ==
    LET sr == IF n < m THEN m ELSE n
    IN  Clamp(((2 * out + 1) * n - 2 * Lanczos3Support * sr) \div (2 * m), 0, n - 1)

SampleRight(n, m, out) ==
    LET sr == IF n < m THEN m ELSE n
        up == (2 * out + 1) * n + 2 * Lanczos3Support * sr
    IN  Clamp(0 - ((0 - up) \div (2 * m)), SampleLeft(n, m, out) + 1, n)

\* kernel((i - (inputx - 0.5)) / sratio), the weight of input sample i
SampleWeight(n, m, out, i) ==
    LET sr == IF n < m THEN m ELSE n
        num == (2 * i + 1) * m - (2 * out + 1) * n
    IN  lanczos3_kernel((num * WScale) \div (2 * sr))

RECURSIVE SumOver(_, _, _)
SumOver(f, lo, hi) == IF lo > hi THEN 0 ELSE f[lo] + SumOver(f, lo + 1, hi)

\* the buffer f[1], ..., f[n], each element computed once
RECURSIVE Collect(_, _)
Collect(f, n) == IF n = 0 THEN <<>> ELSE Append(Collect(f, n - 1), f[n])

\* the window of output sample `out`: its first input sample `left`, the weights
\* ws[1..] of the samples left..right-1 and their sum
Window(n, m, out) ==
    LET left  == SampleLeft(n, m, out)
        right == SampleRight(n, m, out)
        ws    == Collect([j \in 1..(right - left) |-> SampleWeight(n, m, out, left + j - 1)],
                         right - left)
    IN  [left |-> left, ws |-> ws, sum |-> SumOver(ws, 1, right - left)]

\* one output sample: the sum of v[i] * (ws[i] / sum) over the window
Weighted(win, v) ==
    SumOver([j \in 1..Len(win.ws) |-> v[win.left + j - 1] * win.ws[j]],
            1, Len(win.ws)) \div win.sum

\* vertical_sample: rows h -> nheight, samples kept as f32 (scaled by 64)
vertical_sample(img, nheight) ==
    LET wins == Collect([o \in 1..nheight |-> Window(img.h, nheight, o - 1)], nheight)
    IN  [w |-> img.w, h |-> nheight,
         px |-> Collect([k \in 1..(img.w * nheight) |->
                    LET x == (k - 1) % img.w
                        outy == (k - 1) \div img.w
                    IN  Collect([c \in 1..Channels(img) |->
                            Weighted(wins[outy + 1],
                                [y \in 0..(img.h - 1) |-> 64 * Pixel(img, x, y)[c]])],
                            Channels(img))],
                    img.w * nheight)]

\* horizontal_sample: columns w -> nwidth, clamped to 0..255 and rounded
horizontal_sample(img, nwidth) ==
    LET wins == Collect([o \in 1..nwidth |-> Window(img.w, nwidth, o - 1)], nwidth)
    IN  [w |-> nwidth, h |-> img.h,
         px |-> Collect([k \in 1..(nwidth * img.h) |->
                    LET outx == (k - 1) % nwidth
                        y == (k - 1) \div nwidth
                    IN  Collect([c \in 1..Channels(img) |->
                            LET t == Weighted(wins[outx + 1],
                                         [x \in 0..(img.w - 1) |-> Pixel(img, x, y)[c]])
                            IN  (Clamp(t, 0, 64 * 255) + 32) \div 64],
                            Channels(img))],
                    nwidth * img.h)]

resize_exact(img, nwidth, nheight) ==
    horizontal_sample(vertical_sample(img, nheight), nwidth)

(***************************************************************************)
(* DalImageConverter::resize_and_rotate                                    *)
(***************************************************************************)
\* variant: the flag is ignored, every portrait image is rotated
rotate_step_always(img, auto_rotate) ==
    IF img.w < img.h THEN rotate90(img) ELSE img

\* the image handed to resize_exact
rotate_step(img, auto_rotate) ==
    IF img.w < img.h /\ auto_rotate THEN rotate90(img) ELSE img

\* variant: DynamicImage::resize, which keeps the aspect ratio and fits the image
\* into dim, in place of resize_exact
resize_and_rotate_fit(img, auto_rotate) ==
    LET r == rotate_step(img, auto_rotate)
        byw == dim[1] * r.h <= dim[2] * r.w
        nw == IF byw THEN dim[1] ELSE (2 * r.w * dim[2] + r.h) \div (2 * r.h)
        nh == IF byw THEN (2 * r.h * dim[1] + r.w) \div (2 * r.w) ELSE dim[2]
    IN  resize_exact(r, IF nw < 1 THEN 1 ELSE nw, IF nh < 1 THEN 1 ELSE nh)

resize_and_rotate(img, auto_rotate) ==
    resize_exact(rotate_step(img, auto_rotate), dim[1], dim[2])

(***************************************************************************)
(* DalImageConverter::convert and convert_alpha                            *)
(***************************************************************************)
\* pixels_mut() visits the pixels in row-major order
RowMajor(img) == [k \in 1..Len(img.px) |-> k]

\* variant: every step reads the first pixel visited
RECURSIVE convert_loop_first(_, _, _)
convert_loop_first(px, order, k) ==
    IF k > Len(order) THEN [panic |-> FALSE, px |-> px]
    ELSE LET r == get_nearest(px[order[1]])
         IN  IF r.panic THEN [panic |-> TRUE, px |-> px]
             ELSE convert_loop_first([px EXCEPT ![order[k]] = r.val], order, k + 1)

\* the loop of convert over the positions order[k..]; px is the buffer, rewritten
\* in place; a panic of get_nearest ends the call
RECURSIVE convert_loop(_, _, _)
convert_loop(px, order, k) ==
    IF k > Len(order) THEN [panic |-> FALSE, px |-> px]
    ELSE LET r == get_nearest(px[order[k]])
         IN  IF r.panic THEN [panic |-> TRUE, px |-> px]
             ELSE convert_loop([px EXCEPT ![order[k]] = r.val], order, k + 1)

convert_in_order(img, order) ==
    LET r == convert_loop(img.px, order, 1)
    IN  [panic |-> r.panic, img |-> [w |-> img.w, h |-> img.h, px |-> r.px]]

convert(img) == convert_in_order(img, RowMajor(img))

\* variant: a pixel counts as opaque from alpha 128 on
RECURSIVE convert_alpha_loop_threshold(_, _, _)
convert_alpha_loop_threshold(px, trans_color, k) ==
    IF k > Len(px) THEN [panic |-> FALSE, px |-> px]
    ELSE LET c == IF px[k][4] >= 128
                  THEN get_nearest(<<px[k][1], px[k][2], px[k][3]>>)
                  ELSE [panic |-> FALSE, val |-> trans_color]
         IN  IF c.panic THEN [panic |-> TRUE, px |-> px]
             ELSE convert_alpha_loop_threshold(
                      [px EXCEPT ![k] = <<c.val[1], c.val[2], c.val[3], 255>>],
                      trans_color, k + 1)

\* the loop of convert_alpha; dbg!(trans_color) yields trans_color
RECURSIVE convert_alpha_loop(_, _, _)
convert_alpha_loop(px, trans_color, k) ==
    IF k > Len(px) THEN [panic |-> FALSE, px |-> px]
    ELSE LET c == IF px[k][4] = 255
                  THEN get_nearest(<<px[k][1], px[k][2], px[k][3]>>)
                  ELSE [panic |-> FALSE, val |-> trans_color]
         IN  IF c.panic THEN [panic |-> TRUE, px |-> px]
             ELSE convert_alpha_loop(
                      [px EXCEPT ![k] = <<c.val[1], c.val[2], c.val[3], 255>>],
                      trans_color, k + 1)

convert_alpha(img, trans_color) ==
    LET r == convert_alpha_loop(img.px, trans_color, 1)
    IN  [panic |-> r.panic, img |-> [w |-> img.w, h |-> img.h, px |-> r.px]]

(***************************************************************************)
(* DalImageConverter::process                                              *)
(***************************************************************************)
process(img, auto_rotate) ==
    convert(to_rgb8(resize_and_rotate(img, auto_rotate)))

(***************************************************************************)
(* The state machine.                                                      *)
(***************************************************************************)
Init ==
    \E pal \in Palettes, d \in Dims, s \in Seeds :
        LET c == new(pal, d)
        IN  /\ palette = pal
            /\ tree = c.tree
            /\ index_map = c.index_map
            /\ seed = s
            /\ dim = c.dim
            /\ pc = "idle"
            /\ last = NoCall
            /\ prev = NoCall

\* the record of one call: its arguments and what it returned
get_nearest_call(rgb) ==
    LET r == get_nearest(rgb)
    IN  [NoCall EXCEPT !.op = "get_nearest", !.rgb = rgb,
                       !.panic = r.panic, !.out_rgb = r.val]

resize_and_rotate_call(img, auto_rotate) ==
    [NoCall EXCEPT !.op = "resize_and_rotate", !.img = img, !.flag = auto_rotate,
                   !.mid = rotate_step(img, auto_rotate),
                   !.out_img = resize_and_rotate(img, auto_rotate)]

convert_call(img) ==
    LET r == convert(img)
    IN  [NoCall EXCEPT !.op = "convert", !.img = img,
                       !.panic = r.panic, !.out_img = r.img]

convert_alpha_call(img, trans_color) ==
    LET r == convert_alpha(img, trans_color)
    IN  [NoCall EXCEPT !.op = "convert_alpha", !.img = img, !.rgb = trans_color,
                       !.panic = r.panic, !.out_img = r.img]

process_call(img, auto_rotate) ==
    LET r == process(img, auto_rotate)
    IN  [NoCall EXCEPT !.op = "process", !.img = img, !.flag = auto_rotate,
                       !.mid = rotate_step(img, auto_rotate),
                       !.panic = r.panic, !.out_img = r.img]

\* a caller invokes get_nearest (through convert) on one colour
GetNearest ==
    /\ pc = "idle"
    /\ \E rgb \in QueryColors : last' = get_nearest_call(rgb)
    /\ pc' = "returned"
    /\ UNCHANGED <<palette, tree, index_map, seed, dim, prev>>

ResizeAndRotate ==
    /\ pc = "idle"
    /\ \E img \in DynImages, auto_rotate \in BOOLEAN :
        last' = resize_and_rotate_call(img, auto_rotate)
    /\ pc' = "returned"
    /\ UNCHANGED <<palette, tree, index_map, seed, dim, prev>>

Convert ==
    /\ pc = "idle"
    /\ \E img \in RgbImages : last' = convert_call(img)
    /\ pc' = "returned"
    /\ UNCHANGED <<palette, tree, index_map, seed, dim, prev>>

ConvertAlpha ==
    /\ pc = "idle"
    /\ \E img \in RgbaImages, trans_color \in TransColors :
        last' = convert_alpha_call(img, trans_color)
    /\ pc' = "returned"
    /\ UNCHANGED <<palette, tree, index_map, seed, dim, prev>>

\* variant: a call that rotated its image leaves the dimensions swapped
Process_swapping_dim ==
    /\ pc = "idle"
    /\ \E img \in DynImages, auto_rotate \in BOOLEAN :
        /\ last' = process_call(img, auto_rotate)
        /\ dim' = IF img.w < img.h /\ auto_rotate THEN <<dim[2], dim[1]>> ELSE dim
    /\ pc' = "returned"
    /\ UNCHANGED <<palette, tree, index_map, seed, prev>>

Process ==
    /\ pc = "idle"
    /\ \E img \in DynImages, auto_rotate \in BOOLEAN :
        last' = process_call(img, auto_rotate)
    /\ pc' = "returned"
    /\ UNCHANGED <<palette, tree, index_map, seed, dim, prev>>

\* the caller takes the result; the converter keeps nothing of the call
Return ==
    /\ pc = "returned"
    /\ pc' = "idle"
    /\ last' = NoCall
    /\ UNCHANGED <<palette, tree, index_map, seed, dim, prev>>

Next == GetNearest \/ ResizeAndRotate \/ Convert \/ ConvertAlpha \/ Process \/ Return

Spec == Init /\ [][Next]_vars

(***************************************************************************)
(* Two invocations with the same arguments: the first call is remembered   *)
(* in `prev`, the second repeats it on the same converter.                 *)
(***************************************************************************)
FirstCall ==
    /\ prev = NoCall
    /\ GetNearest \/ Process

\* the first result is kept; the second call runs on the same converter or on
\* one built anew from the same palette and dimensions
Remember ==
    /\ pc = "returned"
    /\ prev = NoCall
    /\ prev' = last
    /\ last' = NoCall
    /\ pc' = "idle"
    /\ \/ UNCHANGED <<palette, tree, index_map, seed, dim>>
       \/ \E s \in Seeds :
            LET c == new(palette, dim)
            IN  /\ tree' = c.tree
                /\ index_map' = c.index_map
                /\ dim' = c.dim
                /\ seed' = s
                /\ UNCHANGED palette

RepeatCall ==
    /\ pc = "idle"
    /\ prev # NoCall
    /\ last' = CASE prev.op = "get_nearest" -> get_nearest_call(prev.rgb)
                 [] prev.op = "process" -> process_call(prev.img, prev.flag)
    /\ pc' = "returned"
    /\ UNCHANGED <<palette, tree, index_map, seed, dim, prev>>

Forget ==
    /\ pc = "returned"
    /\ prev # NoCall
    /\ prev' = NoCall
    /\ last' = NoCall
    /\ pc' = "idle"
    /\ UNCHANGED <<palette, tree, index_map, seed, dim>>

NextDet == FirstCall \/ Remember \/ RepeatCall \/ Forget

SpecDet == Init /\ [][NextDet]_vars

(***************************************************************************)
(* Properties.                                                             *)
(***************************************************************************)
Range(f) == {f[i] : i \in DOMAIN f}

Returned(op) == pc = "returned" /\ last.op = op /\ ~last.panic

\* C1: every colour get_nearest returns is an entry of the palette the
\* converter was built from, and so is every pixel of a raster returned by
\* convert and by process.
C1_Membership ==
    /\ Returned("get_nearest") => last.out_rgb \in Range(palette)
    /\ Returned("convert") \/ Returned("process") =>
           \A k \in 1..Len(last.out_img.px) : last.out_img.px[k] \in Range(palette)

\* process has returned a raster that holds two different palette colours
C1_Witness ==
    /\ Returned("process")
    /\ \E j, k \in 1..Len(last.out_img.px) : last.out_img.px[j] # last.out_img.px[k]

\* C2: the raster returned by process has exactly the width and height the
\* converter was constructed with, whatever the input's size and the flag.
C2_OutputDimensions ==
    Returned("process") =>
        /\ last.out_img.w = dim[1]
        /\ last.out_img.h = dim[2]
        /\ Len(last.out_img.px) = dim[1] * dim[2]

\* process has rotated a portrait input whose size differs from dim
C2_Witness ==
    /\ Returned("process")
    /\ last.flag /\ last.img.w < last.img.h
    /\ <<last.img.w, last.img.h>> # dim
    /\ <<last.img.h, last.img.w>> # dim

\* C3: convert_alpha gives a pixel of alpha 255 the palette colour get_nearest
\* finds for its RGB, any other pixel exactly the fallback colour, and every
\* pixel alpha 255.
C3_AlphaPolicy ==
    Returned("convert_alpha") =>
        /\ last.out_img.w = last.img.w /\ last.out_img.h = last.img.h
        /\ Len(last.out_img.px) = Len(last.img.px)
        /\ \A k \in 1..Len(last.img.px) :
            LET i == last.img.px[k]
                o == last.out_img.px[k]
                rgb == <<o[1], o[2], o[3]>>
            IN  /\ o[4] = 255
                /\ i[4] = 255 => /\ rgb \in Range(palette)
                                 /\ rgb = get_nearest(<<i[1], i[2], i[3]>>).val
                /\ i[4] # 255 => rgb = last.rgb

\* convert_alpha has returned a raster with an opaque pixel and one of alpha 254
C3_Witness ==
    /\ Returned("convert_alpha")
    /\ \E j, k \in 1..Len(last.img.px) :
        last.img.px[j][4] = 255 /\ last.img.px[k][4] = 254

\* C4: get_nearest of a palette entry is that entry's colour, and get_nearest
\* of a result of get_nearest is that result.
C4_Idempotent ==
    Returned("get_nearest") =>
        /\ last.rgb \in Range(palette) => last.out_rgb = last.rgb
        /\ get_nearest(last.out_rgb) = [panic |-> FALSE, val |-> last.out_rgb]

\* get_nearest was asked for a palette colour that is not the first entry
C4_Witness ==
    /\ Returned("get_nearest")
    /\ Len(palette) >= 2
    /\ last.rgb = palette[2] /\ last.rgb # palette[1]

\* C5 as stated: no call ends in the failure "Color not found", whatever the
\* palette passed to new.
C5_NeverColorNotFound ==
    last.op \in {"convert", "convert_alpha", "process"} => ~last.panic

\* C5 amended: on a converter built from a palette of at least one entry no
\* call ends in the failure "Color not found".
C5_NoFailureNonEmptyPalette == Len(palette) >= 1 => ~last.panic

\* a conversion has returned on a converter with a palette of one entry or more
C5_Witness ==
    /\ pc = "returned"
    /\ last.op \in {"convert", "convert_alpha", "process"}
    /\ Len(palette) >= 1

\* C6: resize_and_rotate hands resize_exact the image rotated by 90 degrees
\* (width and height exchanged, so width >= height) exactly when auto_rotate
\* is set and the width is less than the height, and the image itself otherwise.
C6_RotateWhenPortrait ==
    pc = "returned" /\ last.op \in {"resize_and_rotate", "process"} =>
        IF last.flag /\ last.img.w < last.img.h
        THEN /\ last.mid.w = last.img.h
             /\ last.mid.h = last.img.w
             /\ last.mid.w >= last.mid.h
             /\ \A x \in 0..(last.img.w - 1), y \in 0..(last.img.h - 1) :
                    Pixel(last.mid, last.img.h - 1 - y, x) = Pixel(last.img, x, y)
        ELSE last.mid = last.img

\* resize_and_rotate has rotated a portrait image
C6_Witness ==
    /\ pc = "returned" /\ last.op = "resize_and_rotate"
    /\ last.flag /\ last.img.w < last.img.h
    /\ last.mid # last.img

C8_IndexMatchesPalette ==
    /\ Len(tree) = Len(palette)
    /\ DOMAIN index_map = 0..(Len(palette) - 1)
    /\ \A i \in 0..(Len(palette) - 1) :
        /\ index_map[i] = palette[i + 1]
        /\ Cardinality({k \in 1..Len(tree) : tree[k].item = i}) = 1
        /\ \A k \in 1..Len(tree) :
               tree[k].item = i => tree[k].point = rgb_to_lab(palette[i + 1])

\* a converter built from a palette with a duplicate colour has served a call
C8_Witness ==
    /\ pc = "returned"
    /\ Len(palette) >= 2 /\ palette[1] = palette[2]

C10_Pointwise ==
    Returned("convert") =>
        /\ last.out_img.w = last.img.w /\ last.out_img.h = last.img.h
        /\ Len(last.out_img.px) = Len(last.img.px)
        /\ \A k \in 1..Len(last.img.px) :
               last.out_img.px[k] = get_nearest(last.img.px[k]).val
        /\ \A order \in Permutations(1..Len(last.img.px)) :
               convert_in_order(last.img, [k \in 1..Len(last.img.px) |-> order[k]])
                   = [panic |-> FALSE, img |-> last.out_img]

\* convert has returned a raster of two pixels that got different colours
C10_Witness ==
    /\ Returned("convert")
    /\ Len(last.img.px) >= 2
    /\ last.out_img.px[1] # last.out_img.px[2]
====
